---- MODULE Spec2Model ----
(***************************************************************************)
(* Model of src/main.py: the per-item download / classify / tag pipeline   *)
(* of the memories downloader, and its pure helpers.                       *)
(*                                                                         *)
(* Strings are sequences of tokens (a token is an indivisible run of       *)
(* characters); a path is a stem, identified by the row index that         *)
(* "{i}_{date_iso}" starts with, and a sequence of dot-separated suffix    *)
(* components: [stem |-> 3, name |-> <<"tagged", "mp4">>] is               *)
(* "3_<date>.tagged.mp4".  A file is a record: how much of a body it       *)
(* holds, the first bytes of that body, the metadata embedded in it and,   *)
(* for a JSON document, its keys.                                          *)
(*                                                                         *)
(* Environment faults are the exceptions the source handles or lets        *)
(* propagate at each network, external-tool and file-system call of the    *)
(* fetch and tagging stages.  The sidecar and ledger writes themselves     *)
(* are taken to succeed.                                                   *)
(***************************************************************************)
EXTENDS Integers, Sequences, FiniteSets, TLC

\* ---------------------------------------------------------------- bounds
\* Number of <tr> rows of the catalogue table.
NRows == 2
\* Longest file prefix (in bytes) drawn for the classifier's inputs.
MaxBytes == 5

\* ------------------------------------------------------ program constants
max_retries == 3

\* ---------------------------------------------------------------- strings
Min(S) == CHOOSE x \in S : \A y \in S : x <= y
Max(S) == CHOOSE x \in S : \A y \in S : x >= y

\* str.lower() on one token
LowerTok(t) ==
    CASE t = "APPLICATION/ZIP" -> "application/zip"
      [] t = "Application/X-Zip-Compressed" -> "application/x-zip-compressed"
      [] t = "Image/PNG" -> "image/png"
      [] t = "Image/JPEG" -> "image/jpeg"
      [] t = "VIDEO/MP4" -> "video/mp4"
      [] t = "Image" -> "image"
      [] t = "Video" -> "video"
      [] t = "Audio" -> "audio"
      [] t = "JPG" -> "jpg"
      [] t = "ZIP" -> "zip"
      [] OTHER -> t

\* str.lower()
Lower(s) == [k \in 1..Len(s) |-> LowerTok(s[k])]

\* str.split(";")[0]
SplitFirst(s) ==
    LET semis == {k \in 1..Len(s) : s[k] = ";"}
    IN  IF semis = {} THEN s ELSE SubSeq(s, 1, Min(semis) - 1)

\* str.strip()
Strip(s) ==
    LET ink == {k \in 1..Len(s) : s[k] # " "}
    IN  IF ink = {} THEN <<>> ELSE SubSeq(s, Min(ink), Max(ink))

\* An optional string: None, or a str.
None == [some |-> FALSE, toks |-> <<>>]
Str(toks) == [some |-> TRUE, toks |-> toks]
\* Python truthiness of an optional string
Truthy(o) == o.some /\ o.toks # <<>>

\* content_type.split(";")[0].strip().lower()
NormCT(content_type) == Lower(Strip(SplitFirst(content_type.toks)))

\* ------------------------------------------------------------------ paths
MkPath(stem, name) == [stem |-> stem, name |-> name]
\* Path.suffix: the last dot-separated component, "" when there is none
Suffix(p) == IF p.name = <<>> THEN <<>> ELSE <<p.name[Len(p.name)]>>
\* Path.with_suffix(s): the last component replaced by s (appended when the
\* path has none, dropped when s is "")
WithSuffix(p, s) ==
    MkPath(p.stem,
           (IF p.name = <<>> THEN <<>> ELSE SubSeq(p.name, 1, Len(p.name) - 1)) \o s)
\* file_path.suffix.replace(".", ".tagged.", 1)
TaggedSuffix(s) == IF s = <<>> THEN <<>> ELSE <<"tagged">> \o s

\* ------------------------------------------------------------------ files
MkFile(len, head, meta, doc) == [len |-> len, head |-> head, meta |-> meta, doc |-> doc]
\* bytes of a response body, as downloaded
Media(len, head) == MkFile(len, head, "none", <<>>)

Exists(f, p) == p \in DOMAIN f
\* open(p, "wb").write / write_text: create or overwrite
WriteFile(f, p, d) == [q \in (DOMAIN f) \cup {p} |-> IF q = p THEN d ELSE f[q]]
\* Path.unlink(missing_ok=True)
Unlink(f, p) == [q \in (DOMAIN f) \ {p} |-> f[q]]
\* Path.replace(target): rename over the target
Replace(f, src, dst) ==
    IF src = dst THEN f
    ELSE [q \in ((DOMAIN f) \ {src}) \cup {dst} |-> IF q = dst THEN f[src] ELSE f[q]]

\* ------------------------------------------------------------- classifier
ZipSig == <<80, 75, 3, 4>>
ZipCTs == {<<"application/zip">>, <<"application/x-zip-compressed">>}

\* f.read(4)
Read4(bytes) == SubSeq(bytes, 1, IF Len(bytes) < 4 THEN Len(bytes) ELSE 4)

\* is_zip(file_path, content_type).  file is what open(file_path, "rb") finds:
\* readable or not (OSError), and the bytes.  The result also tells whether
\* the signature check (lines 186-193) was attempted.
\* is_zip comparing the raw header, without line 181's normalisation
is_zip_raw_header(file, content_type) ==
    LET by_header == Truthy(content_type) /\ content_type.toks \in ZipCTs
    IN  [zip |-> by_header \/ (file.readable /\ Read4(file.bytes) = ZipSig),
         tried |-> ~by_header]
is_zip(file, content_type) ==
    LET by_header == Truthy(content_type) /\ NormCT(content_type) \in ZipCTs
    IN  IF by_header THEN [zip |-> TRUE, tried |-> FALSE]
        ELSE IF file.readable
             THEN [zip |-> Read4(file.bytes) = ZipSig, tried |-> TRUE]
             ELSE [zip |-> FALSE, tried |-> TRUE]

\* ---------------------------------------------------------------- fetcher
\* The table behind mimetypes.guess_extension differs between Python versions
\* and hosts: for image/jpeg it answers ".jpg" or ".jpe".
VARIABLE mimetable
\* mimetypes.guess_extension(ct) or ""
guess_extension(ct) ==
    CASE ct = <<"video/mp4">> -> <<"mp4">>
      [] ct = <<"image/jpeg">> -> <<mimetable>>
      [] ct = <<"image/png">> -> <<"png">>
      [] ct = <<"application/zip">> -> <<"zip">>
      [] OTHER -> <<>>

\* guess_ext with the suffix of the URL path ahead of the Content-Type
guess_ext_url_first(url, content_type) ==
    LET ct == NormCT(content_type)
        from_ct == IF ~Truthy(content_type) THEN <<>>
                   ELSE IF ct = <<"video/mp4">> THEN <<"mp4">>
                   ELSE IF ct = <<"image/jpeg">> THEN <<"jpg">>
                   ELSE guess_extension(ct)
    IN  IF url.suffix # <<>> THEN url.suffix ELSE from_ct
\* guess_ext(url, content_type); url.suffix is Path(urlparse(url).path).suffix
guess_ext(url, content_type) ==
    LET ct == NormCT(content_type)
        from_ct == IF ~Truthy(content_type) THEN <<>>
                   ELSE IF ct = <<"video/mp4">> THEN <<"mp4">>
                   ELSE IF ct = <<"image/jpeg">> THEN <<"jpg">>
                   ELSE guess_extension(ct)
    IN  IF from_ct # <<>> THEN from_ct ELSE url.suffix

\* the body streamed straight to the extensionless stem
tmp_path_direct(out_stem) == out_stem
\* out_stem.with_suffix(".download")
tmp_path(out_stem) == WithSuffix(out_stem, <<"download">>)

\* lines 94-99
final_path(out_stem, url, content_type, kind_norm) ==
    LET ext == guess_ext(url, content_type)
    IN  IF ext = <<>> /\ kind_norm = <<"image">>
        THEN WithSuffix(out_stem, <<"jpg">>)
        ELSE WithSuffix(out_stem, ext)

\* ------------------------------------------------------------ row fields
GoodDate == "2025-11-12 21:05:03 UTC"
DateStrs == {GoodDate, "12/11/2025 21:05"}
\* datetime.strptime(date_str.strip(), "%Y-%m-%d %H:%M:%S UTC") succeeds
DateParses(date_str) == date_str = GoodDate
\* parse_iso8601_utc
parse_iso8601_utc(date_str) ==
    IF date_str = GoodDate THEN "2025-11-12T21:05:03Z" ELSE "ValueError"

Kinds == {<<"Image">>, <<"Video">>, <<"Audio">>}

\* A download URL, as extract_download_url returns it: None, or a URL whose
\* path has a name and a suffix (Path(urlparse(url).path).suffix).
NoUrl == [some |-> FALSE, stem |-> "none", suffix |-> <<>>]
Url(stem, sfx) == [some |-> TRUE, stem |-> stem, suffix |-> sfx]
Urls == {NoUrl,
         Url("photo", <<>>), Url("clip", <<"mp4">>), Url("shot", <<>>),
         Url("pic", <<"webp">>), Url("bundle", <<>>), Url("overlay", <<"mp4">>),
         Url("archive", <<>>)}

\* first bytes of a body that is no zip archive (a JPEG's)
OtherSig == <<255, 216, 255, 224>>

\* What the server answers for a URL: the Content-Type header and the first
\* bytes of the body.
Served(url) ==
    CASE url.stem = "photo"   -> [ct |-> None, head |-> OtherSig]
      [] url.stem = "clip"    -> [ct |-> Str(<<"video/mp4">>), head |-> OtherSig]
      [] url.stem = "shot"    -> [ct |-> Str(<<"Image/PNG", ";", " ", "charset=binary">>),
                                  head |-> OtherSig]
      [] url.stem = "pic"     -> [ct |-> Str(<<"binary/octet-stream">>), head |-> OtherSig]
      [] url.stem = "bundle"  -> [ct |-> None, head |-> ZipSig]
      [] url.stem = "overlay" -> [ct |-> Str(<<"video/mp4">>), head |-> ZipSig]
      [] url.stem = "archive" -> [ct |-> Str(<<"APPLICATION/ZIP">>), head |-> OtherSig]
      [] OTHER                -> [ct |-> None, head |-> <<>>]

\* The rows a catalogue holds: any number of cells, date text, kind and URL;
\* rows declared Video point at the video, extensionless or zip resources,
\* rows of another kind at an extensionless or a zip resource.
RowSet ==
    {r \in [tds : {3, 4}, date_str : DateStrs, kind : Kinds, url : Urls] :
        /\ r.kind = <<"Video">> =>
             r.url.stem \in {"none", "photo", "clip", "bundle", "overlay", "archive"}
        /\ r.kind = <<"Audio">> => r.url.stem \in {"photo", "archive"}}
NoRow == [tds |-> 0, date_str |-> "", kind |-> <<>>, url |-> NoUrl]

\* ------------------------------------------------------------------ state
VARIABLES
    starting_index, \* params["starting_index"]
    i,              \* the row loop's index
    pc,             \* the statement the run is at
    status,         \* "running", "halted" (uncaught exception), "done"
    halt,           \* the exception that halted the run
    row,            \* the row being processed
    fs,             \* the output directory: path -> file
    ledger,         \* not_saved.txt: its lines
    attempt,        \* download_file's attempt
    tries,          \* how each request attempt of this item ended
    sleeps,         \* time.sleep(60) calls made for this item
    content_type,   \* the Content-Type of the successful response
    body,           \* first bytes of the body the server sends
    file_path,      \* the final path download_file returned
    outcome,        \* how the tagging block ended for this item
    invoked,        \* the taggers invoked on this item
    raised,         \* the exception the tagging block raised for this item
    which_ffmpeg,   \* what shutil.which("ffmpeg") answered for this item, line 300
    written,        \* chunks of the response the current attempt has written
    stale,          \* download_file: a failed attempt left bytes in the temporary file
    pauses,         \* input() calls that have returned
    prior,          \* what an earlier run left for the rows below starting_index
    zin,            \* classifier input under test
    zout,           \* classifier output under test
    sz,             \* save_zip under test: directory, path, calls made
    gx              \* guess_ext and the final name under test

item == <<row, attempt, tries, sleeps, content_type, body, file_path, outcome,
         invoked, raised, which_ffmpeg, written, stale>>
run_env == <<prior, mimetable>>
ztest == <<zin, zout, sz, gx>>
vars == <<starting_index, i, pc, status, halt, row, fs, ledger, attempt, tries,
          sleeps, content_type, body, file_path, outcome, invoked, raised,
          which_ffmpeg, written, stale, pauses, prior, mimetable,
          zin, zout, sz, gx>>

NoPath == MkPath(0, <<"none">>)
NoFileIn == [readable |-> FALSE, bytes |-> <<>>]
NoZ == [file |-> NoFileIn, content_type |-> None]
NoOut == [zip |-> FALSE, tried |-> FALSE, applied |-> FALSE]
NoSz == [fs |-> <<>>, path |-> NoPath, calls |-> 0, renames |-> 0]
NoGx == [url |-> NoUrl, content_type |-> None, kind_norm |-> <<>>,
         ext |-> <<>>, name |-> <<>>, applied |-> FALSE]

ResetItem ==
    /\ row' = NoRow
    /\ attempt' = 0
    /\ tries' = <<>>
    /\ sleeps' = 0
    /\ content_type' = None
    /\ body' = <<>>
    /\ file_path' = NoPath
    /\ outcome' = "none"
    /\ invoked' = {}
    /\ raised' = "none"
    /\ which_ffmpeg' = "unasked"
    /\ written' = 0
    /\ stale' = FALSE

\* What an earlier run left for a row below the starting index: nothing, a
\* tagged picture, or a line in not_saved.txt.
PriorOutcomes == {"none", "saved", "logged"}
PriorRuns(s) == [0..(s - 1) -> PriorOutcomes]
PriorFs(h) ==
    LET saved == {j \in DOMAIN h : h[j] = "saved"}
    IN  IF saved = {} THEN <<>>
        ELSE [p \in {MkPath(j, <<"jpg">>) : j \in saved} |->
                MkFile("full", OtherSig, "exif", <<>>)]
RECURSIVE PriorLedger(_, _)
PriorLedger(h, n) ==
    IF n = 0 THEN <<>>
    ELSE PriorLedger(h, n - 1)
            \o (IF h[n - 1] = "logged" THEN <<<<n - 1, <<"Image">>, GoodDate>>>> ELSE <<>>)

\* the variables of the row loop before the first row
AtFirstRow ==
    /\ i = 0
    /\ pc = "row"
    /\ status = "running"
    /\ halt = "none"
    /\ row = NoRow
    /\ attempt = 0
    /\ tries = <<>>
    /\ sleeps = 0
    /\ content_type = None
    /\ body = <<>>
    /\ file_path = NoPath
    /\ outcome = "none"
    /\ invoked = {}
    /\ raised = "none"
    /\ which_ffmpeg = "unasked"
    /\ written = 0
    /\ stale = FALSE
    /\ pauses = 0

Init ==
    /\ starting_index \in 0..NRows
    /\ AtFirstRow
    /\ prior \in PriorRuns(starting_index)
    /\ fs = PriorFs(prior)
    /\ ledger = PriorLedger(prior, starting_index)
    /\ mimetable = "jpg"
    /\ zin = NoZ
    /\ zout = NoOut
    /\ sz = NoSz
    /\ gx = NoGx

\* a base name that leaves the index out: every row shares it
out_stem_shared == MkPath(0, <<>>)
\* out_dir / base, base being "{i}_{date_iso}" made safe: the rows differ in i
out_stem == MkPath(i, <<>>)
\* kind.strip().lower()
kind_norm == Lower(Strip(row.kind))
\* file_path.suffix.lower()
suffix == Lower(Suffix(file_path))
\* what open(p, "rb") finds in the output directory
Opened(f, p) ==
    IF Exists(f, p) THEN [readable |-> TRUE, bytes |-> f[p].head] ELSE NoFileIn

\* ------------------------------------------------------------ the row loop
\* line 259: the rows are exhausted, the script ends
EndOfRows ==
    /\ status = "running" /\ pc = "row" /\ i = NRows
    /\ status' = "done"
    /\ UNCHANGED <<starting_index, i, pc, halt, fs, ledger, item, pauses, run_env, ztest>>

\* lines 260-265: a row with fewer than 4 cells, or below the starting index
SkipRow ==
    /\ status = "running" /\ pc = "row" /\ i < NRows
    /\ \E r \in RowSet : r.tds < 4 \/ i < starting_index
    /\ i' = i + 1
    /\ UNCHANGED <<starting_index, pc, status, halt, fs, ledger, item, pauses, run_env, ztest>>

\* lines 274-276: strptime raises ValueError, which nothing catches
ParseFail ==
    /\ status = "running" /\ pc = "row" /\ i < NRows
    /\ \E r \in RowSet :
        /\ r.tds >= 4 /\ i >= starting_index
        /\ ~DateParses(r.date_str)
        /\ row' = r
    /\ status' = "halted"
    /\ halt' = "ValueError"
    /\ UNCHANGED <<starting_index, i, pc, fs, ledger, attempt, tries, sleeps,
                   content_type, body, file_path, outcome, invoked, raised,
                   which_ffmpeg, written, stale, pauses, run_env, ztest>>

\* the loop without the test of line 264
StartItemAnyIndex ==
    /\ status = "running" /\ pc = "row" /\ i < NRows
    /\ \E r \in RowSet :
        /\ r.tds >= 4
        /\ DateParses(r.date_str)
        /\ row' = r
    /\ pc' = "request"
    /\ attempt' = 1
    /\ UNCHANGED <<starting_index, i, status, halt, fs, ledger, tries, sleeps,
                   content_type, body, file_path, outcome, invoked, raised,
                   which_ffmpeg, written, stale, pauses, run_env, ztest>>
\* lines 267-285: the row is read and download_file is entered
StartItem ==
    /\ status = "running" /\ pc = "row" /\ i < NRows
    /\ \E r \in RowSet :
        /\ r.tds >= 4 /\ i >= starting_index
        /\ DateParses(r.date_str)
        /\ row' = r
    /\ pc' = "request"
    /\ attempt' = 1
    /\ UNCHANGED <<starting_index, i, status, halt, fs, ledger, tries, sleeps,
                   content_type, body, file_path, outcome, invoked, raised,
                   which_ffmpeg, written, stale, pauses, run_env, ztest>>

\* --------------------------------------------------- download_file, 79-92
\* lines 89-92: except SSLError
\* the handler with "attempt == max_retries + 1" for line 90
SslFailedOffByOne ==
    /\ tries' = Append(tries, "ssl")
    /\ IF attempt = max_retries + 1
       THEN status' = "halted" /\ halt' = "SSLError" /\ pc' = pc
       ELSE pc' = "sleep" /\ UNCHANGED <<status, halt>>
SslFailed ==
    /\ tries' = Append(tries, "ssl")
    /\ IF attempt = max_retries
       THEN status' = "halted" /\ halt' = "SSLError" /\ pc' = pc
       ELSE pc' = "sleep" /\ UNCHANGED <<status, halt>>

\* line 81: requests.get(None) raises MissingSchema, which nothing catches
RequestNoUrl ==
    /\ status = "running" /\ pc = "request"
    /\ ~row.url.some
    /\ tries' = Append(tries, "schema")
    /\ status' = "halted"
    /\ halt' = "MissingSchema"
    /\ UNCHANGED <<starting_index, i, pc, row, fs, ledger, attempt, sleeps,
                   content_type, body, file_path, outcome, invoked, raised,
                   which_ffmpeg, written, stale, pauses, run_env, ztest>>

\* line 81: the TLS handshake fails
RequestSSLError ==
    /\ status = "running" /\ pc = "request"
    /\ row.url.some
    /\ SslFailed
    /\ UNCHANGED <<starting_index, i, row, fs, ledger, attempt, sleeps,
                   content_type, body, file_path, outcome, invoked, raised,
                   which_ffmpeg, written, stale, pauses, run_env, ztest>>

\* line 82: raise_for_status raises HTTPError, which leaves download_file
RequestHTTPError ==
    /\ status = "running" /\ pc = "request"
    /\ row.url.some
    /\ tries' = Append(tries, "http")
    /\ pc' = "http_error"
    /\ UNCHANGED <<starting_index, i, status, halt, row, fs, ledger, attempt, sleeps,
                   content_type, body, file_path, outcome, invoked, raised,
                   which_ffmpeg, written, stale, pauses, run_env, ztest>>

\* line 81: connection refused or reset, timeout: nothing catches it
RequestTransportError ==
    /\ status = "running" /\ pc = "request"
    /\ row.url.some
    /\ tries' = Append(tries, "transport")
    /\ status' = "halted"
    /\ halt' = "ConnectionError"
    /\ UNCHANGED <<starting_index, i, pc, row, fs, ledger, attempt, sleeps,
                   content_type, body, file_path, outcome, invoked, raised,
                   which_ffmpeg, written, stale, pauses, run_env, ztest>>

\* open(tmp_path, "ab"): the file is created when missing and kept otherwise
open_ab(f, p) == IF Exists(f, p) THEN f ELSE WriteFile(f, p, Media("empty", <<>>))
\* line 84, open(tmp_path, "wb"): the file is created or truncated
open_wb(f, p) == WriteFile(f, p, Media("empty", <<>>))

\* lines 85-87, f.write(chunk): the chunks are appended to what the file holds.
\* d is the file, sent the chunks of this response written before, head the
\* first bytes of the response, last whether the response ends with this write.
\* The file holds a prefix of the response only when it held exactly the
\* chunks written before.
f_write(d, sent, head, last) ==
    LET in_step == (d.len = "empty" /\ sent = 0) \/ (d.len = "partial" /\ sent = 1)
    IN  Media(IF ~in_step THEN "garbled" ELSE IF last THEN "full" ELSE "partial",
              IF d.len = "empty" THEN head ELSE d.head)

\* lines 81-84: a 2xx response; the temporary file is opened with "wb"
RequestOK ==
    /\ status = "running" /\ pc = "request"
    /\ row.url.some
    /\ content_type' = Served(row.url).ct
    /\ body' = Served(row.url).head
    /\ fs' = open_wb(fs, tmp_path(out_stem))
    /\ written' = 0
    /\ pc' = "stream"
    /\ UNCHANGED <<starting_index, i, status, halt, row, ledger, attempt, tries,
                   sleeps, file_path, outcome, invoked, raised,
                   which_ffmpeg, stale, pauses, run_env, ztest>>

\* lines 85-87: a chunk is written and more of the body is to come
StreamChunk ==
    /\ status = "running" /\ pc = "stream"
    /\ written = 0
    /\ fs' = WriteFile(fs, tmp_path(out_stem),
                       f_write(fs[tmp_path(out_stem)], written, body, FALSE))
    /\ written' = written + 1
    /\ UNCHANGED <<starting_index, i, pc, status, halt, row, ledger, attempt, tries,
                   sleeps, content_type, body, file_path, outcome, invoked, raised,
                   which_ffmpeg, stale, pauses, run_env, ztest>>

\* lines 85-88: the last chunk is written, the response closes, break
StreamDone ==
    /\ status = "running" /\ pc = "stream"
    /\ fs' = WriteFile(fs, tmp_path(out_stem),
                       f_write(fs[tmp_path(out_stem)], written, body, TRUE))
    /\ tries' = Append(tries, "ok")
    /\ pc' = "resolve"
    /\ UNCHANGED <<starting_index, i, status, halt, row, ledger, attempt, sleeps,
                   content_type, body, file_path, outcome, invoked, raised,
                   which_ffmpeg, written, stale, pauses, run_env, ztest>>

\* line 85: the TLS layer fails while the body is read
StreamSSLError ==
    /\ status = "running" /\ pc = "stream"
    /\ SslFailed
    /\ stale' = (stale \/ fs[tmp_path(out_stem)].len # "empty")
    /\ UNCHANGED <<starting_index, i, row, fs, ledger, attempt, sleeps,
                   content_type, body, file_path, outcome, invoked, raised,
                   which_ffmpeg, written, pauses, run_env, ztest>>

\* line 85: the connection breaks while the body is read: nothing catches it
StreamTransportError ==
    /\ status = "running" /\ pc = "stream"
    /\ tries' = Append(tries, "transport")
    /\ status' = "halted"
    /\ halt' = "ConnectionError"
    /\ UNCHANGED <<starting_index, i, pc, row, fs, ledger, attempt, sleeps,
                   content_type, body, file_path, outcome, invoked, raised,
                   which_ffmpeg, written, stale, pauses, run_env, ztest>>

\* the process is interrupted in download_file
Interrupt ==
    /\ status = "running" /\ pc \in {"request", "stream", "sleep"}
    /\ status' = "halted"
    /\ halt' = "KeyboardInterrupt"
    /\ UNCHANGED <<starting_index, i, pc, fs, ledger, item, pauses, run_env, ztest>>

SleepAndCount ==
    /\ sleeps' = sleeps + 1
    /\ attempt' = attempt + 1
\* line 92 and the loop header, line 79
Sleep ==
    /\ status = "running" /\ pc = "sleep"
    /\ SleepAndCount
    /\ pc' = "request"
    /\ UNCHANGED <<starting_index, i, status, halt, row, fs, ledger, tries,
                   content_type, body, file_path, outcome, invoked, raised,
                   which_ffmpeg, written, stale, pauses, run_env, ztest>>

\* lines 94-102: the extension is resolved and the temporary file renamed
Resolve ==
    /\ status = "running" /\ pc = "resolve"
    /\ LET fp == final_path(out_stem, row.url, content_type, kind_norm)
       IN  /\ fs' = Replace(fs, tmp_path(out_stem), fp)
           /\ file_path' = fp
    /\ stale' = FALSE
    /\ pc' = "classify"
    /\ UNCHANGED <<starting_index, i, status, halt, row, ledger, attempt, tries,
                   sleeps, content_type, body, outcome, invoked, raised,
                   which_ffmpeg, written, pauses, run_env, ztest>>

\* ------------------------------------------------------ main, lines 286-290
\* add_line_to_file
add_line_to_file(lines, text) == Append(lines, text)

\* the handler without its "continue"
LogHttpErrorFallsThrough ==
    /\ status = "running" /\ pc = "http_error"
    /\ ledger' = add_line_to_file(ledger, <<i, row.kind, row.date_str>>)
    /\ pc' = "pause"
    /\ UNCHANGED <<starting_index, i, status, halt, fs, item, pauses, run_env, ztest>>
\* except HTTPError: the ledger line, then continue
LogHttpError ==
    /\ status = "running" /\ pc = "http_error"
    /\ ledger' = add_line_to_file(ledger, <<i, row.kind, row.date_str>>)
    /\ i' = i + 1
    /\ pc' = "row"
    /\ ResetItem
    /\ UNCHANGED <<starting_index, status, halt, fs, pauses, run_env, ztest>>

\* ---------------------------------------------- main, lines 292-343: tagging
\* file_path.with_suffix(file_path.suffix + ".json")
sidecar_path(fp) == WithSuffix(fp, Suffix(fp) \o <<"json">>)
\* a sidecar document that carries tag_error in every case
sidecar_doc_with_error(with_error) ==
    <<"kind", "date", "location", "lat", "lon", "content_type", "tag_error">>
\* the keys of the sidecar document
sidecar_doc(with_error) ==
    <<"kind", "date", "location", "lat", "lon", "content_type">>
        \o (IF with_error THEN <<"tag_error">> ELSE <<>>)
\* sidecar.write_text(json.dumps(...))
write_sidecar(f, fp, with_error) ==
    WriteFile(f, sidecar_path(fp), MkFile("full", <<123>>, "none", sidecar_doc(with_error)))

\* file_path.with_suffix(file_path.suffix.replace(".", ".tagged.", 1)), line 301
tagged_path(fp) == WithSuffix(fp, TaggedSuffix(Suffix(fp)))
\* path.with_suffix(".tagged.png"), line 171
png_tmp_path(fp) == WithSuffix(fp, <<"tagged", "png">>)
\* ".zip" added after whatever suffix the path has
zip_path_appended(fp, sfx) == MkPath(fp.stem, fp.name \o <<"zip">>)
\* save_zip's zip_path, line 198
zip_path(fp, sfx) == IF sfx = <<"zip">> THEN fp ELSE WithSuffix(fp, <<"zip">>)
\* save_zip(file_path, suffix) on the directory f: the directory and the path
\* it ends with, and whether it renamed
save_zip(f, fp, sfx) ==
    IF zip_path(fp, sfx) # fp
    THEN [fs |-> Replace(f, fp, zip_path(fp, sfx)), path |-> zip_path(fp, sfx),
          renamed |-> TRUE]
    ELSE [fs |-> f, path |-> fp, renamed |-> FALSE]

\* lines 333-341: except Exception; f is the directory as the failed step left it
\* the tagging block without its except clause
TagFailedUncaught(f, e) ==
    /\ raised' = e
    /\ fs' = f
    /\ outcome' = "none"
    /\ status' = "halted"
    /\ halt' = "TaggingError"
    /\ pc' = pc
TagFailed(f, e) ==
    /\ raised' = e
    /\ fs' = write_sidecar(f, file_path, TRUE)
    /\ outcome' = "Sidecar(error)"
    /\ pc' = "pause"
    /\ UNCHANGED <<status, halt>>

\* the if/elif chain of lines 297-324, on the file as downloaded
\* the chain without the ".png" test of line 312
branch_no_png ==
    IF is_zip(Opened(fs, file_path), content_type).zip THEN "zip"
    ELSE IF kind_norm = <<"video">> THEN "video"
    ELSE IF kind_norm = <<"image">>
         THEN (IF suffix \in {<<"jpg">>, <<"jpeg">>, <<"tif">>, <<"tiff">>} THEN "exif"
               ELSE "image_other")
    ELSE "other"
\* the chain with the kind tests ahead of the zip test
branch_kind_first ==
    IF kind_norm = <<"video">> THEN "video"
    ELSE IF kind_norm = <<"image">>
         THEN (IF suffix \in {<<"jpg">>, <<"jpeg">>, <<"tif">>, <<"tiff">>} THEN "exif"
               ELSE IF suffix = <<"png">> THEN "png"
               ELSE "image_other")
    ELSE IF is_zip(Opened(fs, file_path), content_type).zip THEN "zip"
    ELSE "other"
branch ==
    IF is_zip(Opened(fs, file_path), content_type).zip THEN "zip"
    ELSE IF kind_norm = <<"video">> THEN "video"
    ELSE IF kind_norm = <<"image">>
         THEN (IF suffix \in {<<"jpg">>, <<"jpeg">>, <<"tif">>, <<"tiff">>} THEN "exif"
               ELSE IF suffix = <<"png">> THEN "png"
               ELSE "image_other")
    ELSE "other"

\* lines 297-298 and save_zip: the rename to .zip, when one is needed
ZipRename ==
    /\ status = "running" /\ pc = "classify"
    /\ branch = "zip"
    /\ fs' = save_zip(fs, file_path, suffix).fs
    /\ outcome' = "Zipped"
    /\ pc' = "pause"
    /\ UNCHANGED <<starting_index, i, status, halt, row, ledger, attempt, tries,
                   sleeps, content_type, body, file_path, invoked, raised,
                   which_ffmpeg, written, stale, pauses, run_env, ztest>>

\* line 200: file_path.replace(zip_path) raises
ZipRenameFail ==
    /\ status = "running" /\ pc = "classify"
    /\ branch = "zip"
    /\ zip_path(file_path, suffix) # file_path
    /\ TagFailed(fs, "OSError")
    /\ UNCHANGED <<starting_index, i, row, ledger, attempt, tries,
                   sleeps, content_type, body, file_path, invoked,
                   which_ffmpeg, written, stale, pauses, run_env, ztest>>

\* lines 300-302: ffmpeg is on the PATH and exits 0, the tagged copy is written.
\* ffmpeg refuses an output that is its input (a file without a suffix).
RunFfmpeg ==
    /\ status = "running" /\ pc = "classify"
    /\ branch = "video"
    /\ tagged_path(file_path) # file_path
    /\ fs' = WriteFile(fs, tagged_path(file_path),
                       MkFile("full", fs[file_path].head, "video", <<>>))
    /\ invoked' = invoked \cup {"ffmpeg"}
    /\ pc' = "unlink"
    /\ which_ffmpeg' = "found"
    /\ UNCHANGED <<starting_index, i, status, halt, row, ledger, attempt, tries,
                   sleeps, content_type, body, file_path, outcome, raised,
                   written, stale, pauses, run_env, ztest>>

\* subprocess.run without check=True: a failed ffmpeg goes unnoticed
RunFfmpegFailUnchecked ==
    /\ status = "running" /\ pc = "classify"
    /\ branch = "video"
    /\ \E leftover \in BOOLEAN :
        /\ leftover => tagged_path(file_path) # file_path
        /\ fs' = (IF leftover
                  THEN WriteFile(fs, tagged_path(file_path),
                                 MkFile("partial", fs[file_path].head, "video", <<>>))
                  ELSE fs)
    /\ invoked' = invoked \cup {"ffmpeg"}
    /\ which_ffmpeg' = "found"
    /\ pc' = "unlink"
    /\ UNCHANGED <<starting_index, i, status, halt, row, ledger, attempt, tries,
                   sleeps, content_type, body, file_path, outcome, raised,
                   written, stale, pauses, run_env, ztest>>
\* line 125: ffmpeg exits non-zero (CalledProcessError); it may have created
\* its output file before failing
RunFfmpegFail ==
    /\ status = "running" /\ pc = "classify"
    /\ branch = "video"
    /\ \E leftover \in BOOLEAN :
        /\ leftover => tagged_path(file_path) # file_path
        /\ TagFailed(IF leftover
                     THEN WriteFile(fs, tagged_path(file_path),
                                    MkFile("partial", fs[file_path].head, "video", <<>>))
                     ELSE fs,
                     "CalledProcessError")
    /\ invoked' = invoked \cup {"ffmpeg"}
    /\ which_ffmpeg' = "found"
    /\ UNCHANGED <<starting_index, i, row, ledger, attempt, tries,
                   sleeps, content_type, body, file_path,
                   written, stale, pauses, run_env, ztest>>

\* line 303: file_path.unlink(missing_ok=True)
UnlinkOriginal ==
    /\ status = "running" /\ pc = "unlink"
    /\ fs' = Unlink(fs, file_path)
    /\ pc' = "replace"
    /\ UNCHANGED <<starting_index, i, status, halt, ledger, item, pauses, run_env, ztest>>

\* line 303: unlink raises (the file is locked, permission denied)
UnlinkFail ==
    /\ status = "running" /\ pc = "unlink"
    /\ TagFailed(fs, "OSError")
    /\ UNCHANGED <<starting_index, i, row, ledger, attempt, tries,
                   sleeps, content_type, body, file_path, invoked,
                   which_ffmpeg, written, stale, pauses, run_env, ztest>>

\* lines 304-305: tagged.replace(file_path)
ReplaceTagged ==
    /\ status = "running" /\ pc = "replace"
    /\ fs' = Replace(fs, tagged_path(file_path), file_path)
    /\ outcome' = "VideoTagged"
    /\ pc' = "pause"
    /\ UNCHANGED <<starting_index, i, status, halt, row, ledger, attempt, tries,
                   sleeps, content_type, body, file_path, invoked, raised,
                   which_ffmpeg, written, stale, pauses, run_env, ztest>>

\* line 304: the rename raises
ReplaceFail ==
    /\ status = "running" /\ pc = "replace"
    /\ TagFailed(fs, "OSError")
    /\ UNCHANGED <<starting_index, i, row, ledger, attempt, tries,
                   sleeps, content_type, body, file_path, invoked,
                   which_ffmpeg, written, stale, pauses, run_env, ztest>>

\* lines 324-331: a video when shutil.which("ffmpeg") finds nothing, or a kind
\* that is neither video nor image
SidecarNoTagger ==
    /\ status = "running" /\ pc = "classify"
    /\ branch \in {"video", "other"}
    /\ fs' = write_sidecar(fs, file_path, FALSE)
    /\ outcome' = "Sidecar(unsupported)"
    /\ pc' = "pause"
    /\ which_ffmpeg' = (IF branch = "video" THEN "missing" ELSE "unasked")
    /\ UNCHANGED <<starting_index, i, status, halt, row, ledger, attempt, tries,
                   sleeps, content_type, body, file_path, invoked, raised,
                   written, stale, pauses, run_env, ztest>>

\* lines 309-311, tag_jpeg_tiff_exif: piexif.insert rewrites the file with the
\* EXIF segment
ExifInsert ==
    /\ status = "running" /\ pc = "classify"
    /\ branch = "exif"
    /\ fs' = [fs EXCEPT ![file_path].meta = "exif"]
    /\ invoked' = invoked \cup {"exif"}
    /\ outcome' = "ImageTagged(jpeg)"
    /\ pc' = "pause"
    /\ UNCHANGED <<starting_index, i, status, halt, row, ledger, attempt, tries,
                   sleeps, content_type, body, file_path, raised,
                   which_ffmpeg, written, stale, pauses, run_env, ztest>>

\* lines 158-159: piexif rejects the data (not a JPEG) before writing anything
ExifFail ==
    /\ status = "running" /\ pc = "classify"
    /\ branch = "exif"
    /\ TagFailed(fs, "InvalidImageDataError")
    /\ invoked' = invoked \cup {"exif"}
    /\ UNCHANGED <<starting_index, i, row, ledger, attempt, tries,
                   sleeps, content_type, body, file_path,
                   which_ffmpeg, written, stale, pauses, run_env, ztest>>

\* lines 312-313, tag_png_text lines 165-172: the image is re-saved to tmp
PngSave ==
    /\ status = "running" /\ pc = "classify"
    /\ branch = "png"
    /\ fs' = WriteFile(fs, png_tmp_path(file_path),
                       MkFile("full", fs[file_path].head, "png_text", <<>>))
    /\ invoked' = invoked \cup {"png"}
    /\ pc' = "png_replace"
    /\ UNCHANGED <<starting_index, i, status, halt, row, ledger, attempt, tries,
                   sleeps, content_type, body, file_path, outcome, raised,
                   which_ffmpeg, written, stale, pauses, run_env, ztest>>

\* lines 165-172: Image.open or im.save raises; im.save may have created tmp
PngSaveFail ==
    /\ status = "running" /\ pc = "classify"
    /\ branch = "png"
    /\ \E leftover \in BOOLEAN :
        TagFailed(IF leftover
                  THEN WriteFile(fs, png_tmp_path(file_path),
                                 MkFile("partial", fs[file_path].head, "png_text", <<>>))
                  ELSE fs,
                  "OSError")
    /\ invoked' = invoked \cup {"png"}
    /\ UNCHANGED <<starting_index, i, row, ledger, attempt, tries,
                   sleeps, content_type, body, file_path,
                   which_ffmpeg, written, stale, pauses, run_env, ztest>>

\* line 173: tmp.replace(path)
PngReplace ==
    /\ status = "running" /\ pc = "png_replace"
    /\ fs' = Replace(fs, png_tmp_path(file_path), file_path)
    /\ outcome' = "ImageTagged(png)"
    /\ pc' = "pause"
    /\ UNCHANGED <<starting_index, i, status, halt, row, ledger, attempt, tries,
                   sleeps, content_type, body, file_path, invoked, raised,
                   which_ffmpeg, written, stale, pauses, run_env, ztest>>

\* line 173: the rename raises
PngReplaceFail ==
    /\ status = "running" /\ pc = "png_replace"
    /\ TagFailed(fs, "OSError")
    /\ UNCHANGED <<starting_index, i, row, ledger, attempt, tries,
                   sleeps, content_type, body, file_path, invoked,
                   which_ffmpeg, written, stale, pauses, run_env, ztest>>

\* lines 315-322: an image whose suffix has no tagger
SidecarUnsupportedImage ==
    /\ status = "running" /\ pc = "classify"
    /\ branch = "image_other"
    /\ fs' = write_sidecar(fs, file_path, FALSE)
    /\ outcome' = "Sidecar(unsupported)"
    /\ pc' = "pause"
    /\ UNCHANGED <<starting_index, i, status, halt, row, ledger, attempt, tries,
                   sleeps, content_type, body, file_path, invoked, raised,
                   which_ffmpeg, written, stale, pauses, run_env, ztest>>

\* line 343, inside the loop: input() returns and the loop takes the next row
Pause ==
    /\ status = "running" /\ pc = "pause"
    /\ i' = i + 1
    /\ pc' = "row"
    /\ ResetItem
    /\ pauses' = pauses + 1
    /\ UNCHANGED <<starting_index, status, halt, fs, ledger, run_env, ztest>>

Next ==
    \/ EndOfRows \/ SkipRow \/ ParseFail \/ StartItem
    \/ RequestNoUrl \/ RequestSSLError \/ RequestHTTPError
    \/ RequestTransportError \/ RequestOK
    \/ StreamChunk \/ StreamDone \/ StreamSSLError \/ StreamTransportError
    \/ Interrupt \/ Sleep \/ Resolve \/ LogHttpError
    \/ ZipRename \/ ZipRenameFail
    \/ RunFfmpeg \/ RunFfmpegFail \/ UnlinkOriginal \/ UnlinkFail
    \/ ReplaceTagged \/ ReplaceFail \/ SidecarNoTagger
    \/ ExifInsert \/ ExifFail
    \/ PngSave \/ PngSaveFail \/ PngReplace \/ PngReplaceFail
    \/ SidecarUnsupportedImage
    \/ Pause

Spec == Init /\ [][Next]_vars

\* ------------------------------------------- the classifier on its own
\* bytes of the files handed to is_zip
SigBytes == {80, 75, 3, 4}
BytesUpTo(n) == UNION {[1..k -> SigBytes] : k \in 0..n}
ZFiles == {NoFileIn} \cup {[readable |-> TRUE, bytes |-> b] : b \in BytesUpTo(MaxBytes)}
\* Content-Type values handed to is_zip
ZCTs == {None,
         Str(<<>>),
         Str(<<"application/zip">>),
         Str(<<"APPLICATION/ZIP">>),
         Str(<<" ", "application/zip", " ">>),
         Str(<<"application/zip", ";", " ", "charset=binary">>),
         Str(<<"application/x-zip-compressed">>),
         Str(<<"Application/X-Zip-Compressed", " ", ";">>),
         Str(<<"video/mp4">>),
         Str(<<"binary/octet-stream">>),
         Str(<<";", " ", "application/zip">>),
         Str(<<"video/mp4", ";", "application/zip">>),
         Str(<<"application/zip", " ", "video/mp4">>)}

InitZip ==
    /\ starting_index = 0
    /\ AtFirstRow
    /\ prior = <<>>
    /\ fs = <<>>
    /\ ledger = <<>>
    /\ mimetable = "jpg"
    /\ sz = NoSz
    /\ gx = NoGx
    /\ zin \in [file : ZFiles, content_type : ZCTs]
    /\ zout = NoOut

\* is_zip is applied to the input
ApplyIsZip ==
    /\ ~zout.applied
    /\ LET r == is_zip(zin.file, zin.content_type)
       IN  zout' = [zip |-> r.zip, tried |-> r.tried, applied |-> TRUE]
    /\ UNCHANGED <<starting_index, i, pc, status, halt, fs, ledger, item, pauses, run_env,
                   zin, sz, gx>>

NextZip == ApplyIsZip

SpecZip == InitZip /\ [][NextZip]_vars

\* --------------------------------------------------- save_zip on its own
MaxCalls == 2
\* names of the files handed to save_zip
SzNames == {<<>>, <<"mp4">>, <<"jpg">>, <<"zip">>, <<"ZIP">>, <<"tagged", "mp4">>}
\* other files the directory may hold
SzOthers == {MkPath(0, <<"zip">>), MkPath(0, <<"json">>), MkPath(1, <<"zip">>)}
SzDir(p, head, others) ==
    [q \in others \cup {p} |->
        IF q = p THEN Media("full", head) ELSE MkFile("full", <<123>>, "none", <<>>)]

\* the rest of the state while a function is exercised on its own
PipelineIdle ==
    /\ starting_index = 0
    /\ AtFirstRow
    /\ prior = <<>>
    /\ fs = <<>>
    /\ ledger = <<>>

InitSaveZip ==
    /\ PipelineIdle
    /\ mimetable = "jpg"
    /\ zin = NoZ
    /\ zout = NoOut
    /\ gx = NoGx
    /\ \E n \in SzNames, head \in {ZipSig, OtherSig}, others \in SUBSET SzOthers :
        sz = [fs |-> SzDir(MkPath(0, n), head, others \ {MkPath(0, n)}),
              path |-> MkPath(0, n), calls |-> 0, renames |-> 0]

\* lines 292 and 298: save_zip is applied to the path it ended with before
ApplySaveZip ==
    /\ sz.calls < MaxCalls
    /\ LET r == save_zip(sz.fs, sz.path, Lower(Suffix(sz.path)))
       IN  sz' = [fs |-> r.fs, path |-> r.path, calls |-> sz.calls + 1,
                  renames |-> sz.renames + (IF r.renamed THEN 1 ELSE 0)]
    /\ UNCHANGED <<starting_index, i, pc, status, halt, fs, ledger, item, pauses, run_env,
                   zin, zout, gx>>

NextSaveZip == ApplySaveZip

SpecSaveZip == InitSaveZip /\ [][NextSaveZip]_vars

\* ------------------------------- guess_ext and the final name on their own
\* URLs, by the suffix of their path
GxUrls == {Url("u", <<>>), Url("u", <<"mp4">>), Url("u", <<"webp">>),
           Url("u", <<"JPG">>), Url("u", <<"png">>)}
\* Content-Type headers of the response
GxCTs == {None,
          Str(<<>>),
          Str(<<"video/mp4">>),
          Str(<<"VIDEO/MP4">>),
          Str(<<"image/jpeg">>),
          Str(<<"Image/JPEG", ";", " ", "charset=binary">>),
          Str(<<" ", "image/png", " ">>),
          Str(<<"application/zip">>),
          Str(<<"binary/octet-stream">>),
          Str(<<"text/html", ";", " ", "charset=utf-8">>),
          Str(<<";", "image/jpeg">>)}
GxKinds == {<<"image">>, <<"video">>, <<"audio">>}

InitExt ==
    /\ PipelineIdle
    /\ mimetable \in {"jpg", "jpe"}
    /\ zin = NoZ
    /\ zout = NoOut
    /\ sz = NoSz
    /\ \E u \in GxUrls, ct \in GxCTs, k \in GxKinds :
        gx = [url |-> u, content_type |-> ct, kind_norm |-> k,
              ext |-> <<>>, name |-> <<>>, applied |-> FALSE]

\* lines 94-99: guess_ext, then the name of the final path
ApplyGuessExt ==
    /\ ~gx.applied
    /\ gx' = [gx EXCEPT
                !.ext = guess_ext(gx.url, gx.content_type),
                !.name = final_path(MkPath(0, <<>>), gx.url, gx.content_type,
                                    gx.kind_norm).name,
                !.applied = TRUE]
    /\ UNCHANGED <<starting_index, i, pc, status, halt, fs, ledger, item, pauses, run_env,
                   zin, zout, sz>>

NextExt == ApplyGuessExt

SpecExt == InitExt /\ [][NextExt]_vars

\* ================================================================ claims
Range(q) == {q[k] : k \in DOMAIN q}
Last(q) == q[Len(q)]
\* the files of the item being processed
Mine == {p \in DOMAIN fs : p.stem = i}
\* download_file is running, or has left with an exception
InDownload == pc \in {"request", "stream", "sleep", "http_error"}
\* the statements of the tagging block
InTagging == pc \in {"classify", "unlink", "replace", "png_replace"}
IsSidecarOutcome == outcome \in {"Sidecar(error)", "Sidecar(unsupported)"}

\* C1: when the processing of a fetched item ends in a sidecar outcome, the file
\* at the item's final path exists and holds exactly the downloaded bytes.
C1_ArtifactPreserved ==
    (pc = "pause" /\ IsSidecarOutcome) =>
        (Exists(fs, file_path) /\ fs[file_path] = Media("full", body))

\* C2: an exception raised in the tagging block is caught: a sidecar carrying
\* the error is written, the run is not halted, and the loop is about to go on
\* to the next row.
C2_TaggingFailureContained ==
    raised # "none" =>
        /\ status = "running"
        /\ pc = "pause"
        /\ outcome = "Sidecar(error)"
        /\ Exists(fs, sidecar_path(file_path))
        /\ "tag_error" \in Range(fs[sidecar_path(file_path)].doc)
        /\ ENABLED (Pause /\ i' = i + 1 /\ pc' = "row")

\* an earlier item's tagging failed (its sidecar carries the error) and the
\* next item is in the tagging block
C2_Witness ==
    /\ i = 1 /\ pc = "classify"
    /\ \E p \in DOMAIN fs : p.stem = 0 /\ "tag_error" \in Range(fs[p].doc)

\* C3: while download_file runs, and after it was interrupted or failed, the
\* item has no file but the ".download" temporary; incomplete downloaded bytes
\* exist at ".download" paths only; the rename is reached only once an attempt
\* has written the whole body, and the file it yields is that whole body.
C3_NoPartialAtFinalPath ==
    /\ InDownload => \A p \in Mine : p.name = <<"download">>
    /\ \A p \in DOMAIN fs :
          (fs[p].meta = "none" /\ fs[p].len # "full") => p.name = <<"download">>
    /\ pc = "resolve" =>
          (tries # <<>> /\ Last(tries) = "ok"
           /\ \E p \in Mine : p.name = <<"download">> /\ fs[p] = Media("full", body))
    /\ pc = "classify" => (Exists(fs, file_path) /\ fs[file_path] = Media("full", body))

\* the run was halted in the middle of the transfer of a second attempt
C3_Witness ==
    /\ status = "halted" /\ pc = "stream" /\ attempt = 2
    /\ \E p \in Mine : p.name = <<"download">> /\ fs[p].len = "partial"

\* C4: an HTTP error status appends exactly one ledger line for the item,
\* leaves no artifact of it, and the run goes on with the next row; exhausted
\* TLS retries halt the run, and nothing of a later row is fetched, tagged or
\* logged.
C4_HttpErrorLogged_TlsHalts ==
    /\ [][pc = "http_error" =>
            /\ ledger' = Append(ledger, <<i, row.kind, row.date_str>>)
            /\ fs' = fs
            /\ i' = i + 1 /\ pc' = "row" /\ status' = "running"]_vars
    /\ [](pc = "http_error" =>
            /\ status = "running" /\ ENABLED LogHttpError
            /\ \A k \in DOMAIN ledger : ledger[k][1] < i
            /\ \A p \in Mine : p.name = <<"download">>)
    /\ [](\A k, l \in DOMAIN ledger : k < l => ledger[k][1] < ledger[l][1])
    /\ [](halt = "SSLError" =>
            /\ status = "halted" /\ ~ENABLED Next
            /\ tries = <<"ssl", "ssl", "ssl">>
            /\ \A p \in DOMAIN fs : p.stem <= i
            /\ \A p \in Mine : p.name = <<"download">>
            /\ \A k \in DOMAIN ledger : ledger[k][1] < i)

\* row 0 ended with an HTTP error and was logged, then row 1 exhausted its
\* TLS retries
C4_Witness ==
    /\ starting_index = 0
    /\ Len(ledger) = 1 /\ ledger[1][1] = 0
    /\ i = 1 /\ halt = "SSLError"

\* C5: at most 3 attempts; every attempt but the last ended with an SSLError;
\* one wait between consecutive attempts and none after the last; the third
\* SSLError is re-raised; any other failure leaves download_file on the attempt
\* where it occurs.
C5_RetryPolicy ==
    /\ Len(tries) <= 3 /\ attempt <= 3
    /\ \A k \in 1..(Len(tries) - 1) : tries[k] = "ssl"
    /\ attempt >= 1 => sleeps = attempt - 1
    /\ (attempt >= 1 /\ status = "running" /\ pc \in {"request", "stream"})
          => Len(tries) = attempt - 1
    /\ (attempt >= 1 /\ ~(status = "running" /\ pc \in {"request", "stream"})
          /\ halt # "KeyboardInterrupt")
          => Len(tries) = attempt
    /\ pc = "sleep" => (Last(tries) = "ssl" /\ attempt < 3)
    /\ (Len(tries) = 3 /\ Last(tries) = "ssl")
          => (status = "halted" /\ halt = "SSLError" /\ sleeps = 2)
    /\ halt = "SSLError" => tries = <<"ssl", "ssl", "ssl">>
    /\ (tries # <<>> /\ Last(tries) \in {"http", "transport", "schema"})
          => /\ sleeps = Len(tries) - 1
             /\ IF Last(tries) = "http"
                THEN status = "running" /\ pc = "http_error"
                ELSE status = "halted"

\* the third SSLError of an item: two waits were made, the run is halted
C5_Witness ==
    /\ tries = <<"ssl", "ssl", "ssl">> /\ sleeps = 2 /\ status = "halted"

\* an HTTP error on the third attempt, after two SSLErrors
C5_WitnessHttp ==
    /\ tries = <<"ssl", "ssl", "http">> /\ pc = "http_error"

\* C6: every fetch failure other than exhausted TLS retries (an HTTP error, or
\* any other transport failure) gets the item to the ledger handler, and the
\* run is not halted.
C6_FetchFailureLogged ==
    (tries # <<>> /\ Last(tries) \in {"http", "transport"}) =>
        (status = "running" /\ ENABLED LogHttpError)

\* C7: a row with fewer than 4 cells, an unparseable date or no URL is skipped:
\* nothing is fetched for it and the run is not halted.
C7_MalformedRowSkipped ==
    (row # NoRow /\ (row.tds < 4 \/ ~DateParses(row.date_str) \/ ~row.url.some)) =>
        (status # "halted" /\ tries = <<>> /\ Mine = {})

\* C8: when the processing of a fetched item ends, its files are exactly one
\* artifact, at the final path or at its ".zip" rename, and at most the
\* ".json" sidecar beside it.
C8_ExactlyOneArtifact ==
    pc = "pause" =>
        \E a \in {file_path, WithSuffix(file_path, <<"zip">>)} :
            /\ a \in Mine
            /\ Mine \subseteq {a, sidecar_path(file_path)}

\* the declared Content-Type or the first four bytes of the body say zip
ItemIsZip ==
    \/ (content_type.some /\ NormCT(content_type) \in ZipCTs)
    \/ (Len(body) >= 4 /\ SubSeq(body, 1, 4) = <<80, 75, 3, 4>>)

\* C9: on an item classified as zip no tagger is ever invoked, whatever its
\* kind; processing ends with the downloaded bytes untouched, at the ".zip"
\* name or (when the rename failed) at the final path.
C9_ZipBeforeKind ==
    ((InTagging \/ pc = "pause") /\ ItemIsZip) =>
        /\ invoked = {}
        /\ pc \in {"classify", "pause"}
        /\ pc = "pause" =>
              /\ outcome \in {"Zipped", "Sidecar(error)"}
              /\ LET a == IF outcome = "Zipped"
                          THEN WithSuffix(file_path, <<"zip">>) ELSE file_path
                 IN  Exists(fs, a) /\ fs[a] = Media("full", body)

\* a row declared Video whose ".mp4" download is a zip archive was renamed
C9_Witness ==
    /\ pc = "pause" /\ outcome = "Zipped"
    /\ row.kind = <<"Video">> /\ file_path.name = <<"mp4">>
    /\ Exists(fs, WithSuffix(file_path, <<"zip">>))
    /\ ~Exists(fs, file_path)

\* the header, parameters stripped and lower-cased, is a zip media type
HeaderSaysZip(ct) ==
    ct.some /\ Lower(Strip(SplitFirst(ct.toks))) \in
        {<<"application/zip">>, <<"application/x-zip-compressed">>}
\* the file can be read and starts with PK\x03\x04
SignatureSaysZip(file) ==
    /\ file.readable /\ Len(file.bytes) >= 4
    /\ file.bytes[1] = 80 /\ file.bytes[2] = 75
    /\ file.bytes[3] = 3 /\ file.bytes[4] = 4

\* C10: is_zip reports zip exactly when the normalised Content-Type is a zip
\* media type or the file starts with PK\x03\x04; the signature check is
\* attempted exactly when the Content-Type did not decide.
C10_IsZipIff ==
    zout.applied =>
        /\ zout.zip <=> (HeaderSaysZip(zin.content_type) \/ SignatureSaysZip(zin.file))
        /\ HeaderSaysZip(zin.content_type) => zout.zip
        /\ SignatureSaysZip(zin.file) => zout.zip
        /\ zout.tried <=> ~HeaderSaysZip(zin.content_type)

\* a file longer than its zip signature, with no Content-Type, reported zip
C10_Witness ==
    /\ zout.applied /\ zout.zip /\ zout.tried
    /\ zin.content_type = None
    /\ Len(zin.file.bytes) = 5

\* a zip Content-Type written in upper case, with a file that is no zip
C10_WitnessHeader ==
    /\ zout.applied /\ zout.zip /\ ~zout.tried
    /\ zin.content_type = Str(<<"APPLICATION/ZIP">>)
    /\ zin.file.bytes = <<75, 80, 3, 4>>

\* the output directory and not_saved.txt as the run found them
fs0 == PriorFs(prior)
ledger0 == PriorLedger(prior, starting_index)

\* C11: rows below the starting index are skipped entirely: nothing is fetched
\* for them, the files and the ledger lines an earlier run left for them stay as
\* they were and none is added; the loop index only moves forward, one row at
\* a time, so the rows from the starting index on are taken in increasing order.
C11_BelowStartSkipped ==
    /\ [](/\ i < starting_index =>
               (pc = "row" /\ row = NoRow /\ attempt = 0 /\ tries = <<>>)
          /\ row # NoRow => i >= starting_index
          /\ \A p \in DOMAIN fs0 : Exists(fs, p) /\ fs[p] = fs0[p]
          /\ \A p \in DOMAIN fs : p.stem < starting_index => Exists(fs0, p)
          /\ Len(ledger) >= Len(ledger0)
          /\ SubSeq(ledger, 1, Len(ledger0)) = ledger0
          /\ \A k \in (Len(ledger0) + 1)..Len(ledger) : ledger[k][1] >= starting_index)
    /\ [][i' = i \/ (i' = i + 1 /\ pc' = "row")]_vars
\* a resumed run: row 0 was saved by an earlier run, row 1 is fetched
C11_Witness ==
    /\ starting_index = 1 /\ prior[0] = "saved"
    /\ status = "done" /\ i = NRows
    /\ fs[MkPath(0, <<"jpg">>)] = MkFile("full", OtherSig, "exif", <<>>)
    /\ \E p \in DOMAIN fs : p.stem = 1 /\ fs[p].len = "full"

\* C12: the ledger is append-only and holds one line per fetch failure: what
\* the run found in it stays at its head; every line added names a row already
\* left; an item whose fetch has failed (an HTTP error status, or a transport
\* failure such as a refused connection or a timeout) has its line
\* <<index, kind, raw date>> at the end of the ledger once its handler is
\* through; no row has two lines and a fetched item has none.
C12_LedgerAppendOnly ==
    /\ Len(ledger) >= Len(ledger0)
    /\ SubSeq(ledger, 1, Len(ledger0)) = ledger0
    /\ \A k, l \in DOMAIN ledger : ledger[k][1] = ledger[l][1] => k = l
    /\ (tries # <<>> /\ Last(tries) \in {"http", "transport"} /\ pc # "http_error") =>
          (ledger # <<>> /\ Last(ledger) = <<i, row.kind, row.date_str>>)
    /\ (tries # <<>> /\ Last(tries) = "ok") =>
          \A k \in DOMAIN ledger : ledger[k][1] # i

\* the item has no tagger: an image whose suffix neither piexif nor the PNG
\* path handles, a video for which ffmpeg was not found, or another kind
CapabilityGap ==
    /\ ~ItemIsZip
    /\ \/ /\ kind_norm = <<"image">>
          /\ suffix \notin {<<"jpg">>, <<"jpeg">>, <<"tif">>, <<"tiff">>, <<"png">>}
       \/ kind_norm = <<"video">> /\ which_ffmpeg = "missing"
       \/ kind_norm \notin {<<"image">>, <<"video">>}
\* the sidecar of the item being processed carries tag_error
SidecarHasTagError ==
    /\ Exists(fs, sidecar_path(file_path))
    /\ "tag_error" \in Range(fs[sidecar_path(file_path)].doc)

\* C13: when the tagging block is through with an item that has no tagger, the
\* item has a sidecar without tag_error and no exception was raised; and the
\* sidecar of an item carries tag_error exactly when an exception was raised
\* while tagging that item.
C13_CapabilityGapSidecar ==
    pc = "pause" =>
        /\ CapabilityGap =>
              /\ outcome = "Sidecar(unsupported)"
              /\ raised = "none"
              /\ Exists(fs, sidecar_path(file_path))
              /\ fs[sidecar_path(file_path)].doc = sidecar_doc(FALSE)
              /\ ~SidecarHasTagError
        /\ SidecarHasTagError <=> raised # "none"
\* a picture downloaded as ".webp" ends with a sidecar that has no tag_error
C13_Witness ==
    /\ pc = "pause" /\ kind_norm = <<"image">> /\ suffix = <<"webp">>
    /\ outcome = "Sidecar(unsupported)"
    /\ Exists(fs, sidecar_path(file_path)) /\ ~SidecarHasTagError
\* a video for which ffmpeg was not found
C13_WitnessVideo ==
    /\ pc = "pause" /\ kind_norm = <<"video">> /\ which_ffmpeg = "missing"
    /\ Exists(fs, sidecar_path(file_path)) /\ ~SidecarHasTagError
\* a kind that is neither image nor video
C13_WitnessOtherKind ==
    /\ pc = "pause" /\ kind_norm = <<"audio">> /\ ~ItemIsZip
    /\ Exists(fs, sidecar_path(file_path)) /\ ~SidecarHasTagError

\* C14: zip handling is idempotent.  Applied to a path that already ends in
\* ".zip" (in any letter case, line 292 lower-cases the suffix) it renames
\* nothing and leaves the directory as it is; applied to another path it moves
\* the payload, untouched, to the ".zip" name; applied again to its own result
\* it changes nothing on disk.
C14_SaveZipIdempotent ==
    /\ [](sz.calls >= 1 =>
            /\ Lower(Suffix(sz.path)) = <<"zip">>
            /\ Exists(sz.fs, sz.path)
            /\ sz.renames <= 1)
    /\ [][/\ (sz.calls = 0 /\ Lower(Suffix(sz.path)) = <<"zip">>) =>
               (sz'.fs = sz.fs /\ sz'.path = sz.path /\ sz'.renames = 0)
          /\ (sz.calls = 0 /\ Lower(Suffix(sz.path)) # <<"zip">>) =>
               /\ sz'.path = WithSuffix(sz.path, <<"zip">>)
               /\ sz'.renames = 1
               /\ sz'.fs[sz'.path] = sz.fs[sz.path]
               /\ ~Exists(sz'.fs, sz.path)
               /\ \A q \in DOMAIN sz.fs \ {sz.path, sz'.path} :
                     Exists(sz'.fs, q) /\ sz'.fs[q] = sz.fs[q]
          /\ sz.calls >= 1 =>
               (sz'.fs = sz.fs /\ sz'.path = sz.path /\ sz'.renames = sz.renames)]_vars
\* save_zip renamed a ".mp4" download and, applied again, did nothing
C14_Witness ==
    /\ sz.calls = 2 /\ sz.renames = 1
    /\ sz.path = MkPath(0, <<"zip">>)
    /\ ~Exists(sz.fs, MkPath(0, <<"mp4">>))
    /\ sz.fs[sz.path] = Media("full", ZipSig)
\* save_zip left a ".ZIP" download alone
C14_WitnessUpperCase ==
    /\ sz.calls = 1 /\ sz.renames = 0 /\ sz.path = MkPath(0, <<"ZIP">>)

\* C15: the run waits for the operator once, as its last step: it is at
\* input() only when the last row has been worked through, and a run that has
\* reached the end of the catalogue has passed input() exactly once, whatever
\* the outcome of the last row.
C15_PauseOnceAtEnd ==
    /\ pc = "pause" => i = NRows - 1
    /\ status = "done" => pauses = 1

\* the media type a Content-Type header declares: parameters dropped, outer
\* blanks stripped, lower-cased; nothing when the header is absent or empty
DeclaredType(ct) ==
    IF ct.some /\ ct.toks # <<>> THEN Lower(Strip(SplitFirst(ct.toks))) ELSE <<>>
\* the extension the declared type maps to, <<>> when it maps to none
TypeExt(ct) ==
    IF ~(ct.some /\ ct.toks # <<>>) THEN <<>>
    ELSE IF DeclaredType(ct) = <<"video/mp4">> THEN <<"mp4">>
    ELSE IF DeclaredType(ct) = <<"image/jpeg">> THEN <<"jpg">>
    ELSE guess_extension(DeclaredType(ct))

\* C16: the extension is the one the declared content type maps to when it
\* maps to one ("video/mp4" always ".mp4" and "image/jpeg" always ".jpg",
\* whatever the mimetypes table and the URL say), otherwise the suffix of the
\* URL path, otherwise unknown; a content type that is present but maps to
\* nothing falls through to the URL suffix.  The final name carries that
\* extension; when it is unknown the name is "<stem>.jpg" for kind image and
\* the bare stem otherwise.
C16_ExtensionPriority ==
    gx.applied =>
        /\ gx.ext = (IF TypeExt(gx.content_type) # <<>> THEN TypeExt(gx.content_type)
                     ELSE gx.url.suffix)
        /\ DeclaredType(gx.content_type) = <<"video/mp4">> => gx.ext = <<"mp4">>
        /\ DeclaredType(gx.content_type) = <<"image/jpeg">> => gx.ext = <<"jpg">>
        /\ TypeExt(gx.content_type) = <<>> => gx.ext = gx.url.suffix
        /\ gx.name = (IF gx.ext # <<>> THEN gx.ext
                      ELSE IF gx.kind_norm = <<"image">> THEN <<"jpg">>
                      ELSE <<>>)
\* a header that maps to nothing, on a URL that ends in ".webp"
C16_Witness ==
    /\ gx.applied
    /\ gx.content_type = Str(<<"binary/octet-stream">>)
    /\ gx.url.suffix = <<"webp">>
    /\ gx.name = <<"webp">>
\* image/jpeg with parameters, a ".jpe" table and a URL that ends in ".png"
C16_WitnessJpeg ==
    /\ gx.applied /\ mimetable = "jpe"
    /\ gx.content_type = Str(<<"Image/JPEG", ";", " ", "charset=binary">>)
    /\ gx.url.suffix = <<"png">>
    /\ gx.name = <<"jpg">>
\* nothing known: ".jpg" for an image, the bare stem for a video
C16_WitnessUnknown ==
    /\ gx.applied /\ gx.content_type = None /\ gx.url.suffix = <<>>
    /\ gx.kind_norm = <<"video">> /\ gx.name = <<>>

\* the outcome the item is bound for when no step raises
ChosenOutcome ==
    IF ItemIsZip THEN "Zipped"
    ELSE IF kind_norm = <<"video">> /\ which_ffmpeg = "found" THEN "VideoTagged"
    ELSE IF kind_norm = <<"image">>
         THEN (IF suffix \in {<<"jpg">>, <<"jpeg">>, <<"tif">>, <<"tiff">>}
               THEN "ImageTagged(jpeg)"
               ELSE IF suffix = <<"png">> THEN "ImageTagged(png)"
               ELSE "Sidecar(unsupported)")
    ELSE "Sidecar(unsupported)"
\* the order of the statements of the tagging block
StageRank(p) ==
    CASE p = "classify" -> 1
      [] p \in {"unlink", "png_replace"} -> 2
      [] p = "replace" -> 3
      [] p = "pause" -> 4
      [] OTHER -> 0

\* C17: every fetched item ends in exactly one outcome: Sidecar(error) when a
\* step of the tagging block raised, and otherwise the outcome chosen by the
\* zip test, then the kind and ffmpeg, then the suffix.  While the tagging
\* block runs, the run is not halted and a step can be taken; steps only move
\* forward, an outcome once set is kept until the next row, at most one tagger
\* is invoked and the two image taggers never both.
C17_OneTerminalOutcome ==
    /\ [](/\ pc = "pause" =>
               outcome = (IF raised # "none" THEN "Sidecar(error)" ELSE ChosenOutcome)
          /\ InTagging => (status = "running" /\ outcome = "none" /\ ENABLED Next)
          /\ Cardinality(invoked) <= 1
          /\ ~({"exif", "png"} \subseteq invoked)
          /\ "exif" \in invoked =>
               suffix \in {<<"jpg">>, <<"jpeg">>, <<"tif">>, <<"tiff">>}
          /\ "png" \in invoked => suffix = <<"png">>)
    /\ [][/\ (StageRank(pc) > 0 /\ pc' # pc) =>
               \/ StageRank(pc') > StageRank(pc)
               \/ pc = "pause" /\ pc' = "row" /\ i' = i + 1
          /\ outcome # "none" =>
               \/ outcome' = outcome /\ pc' = pc
               \/ outcome' = "none" /\ pc' = "row"]_vars
\* a picture served as image/png was re-saved with its text entries
C17_Witness ==
    /\ pc = "pause" /\ outcome = "ImageTagged(png)"
    /\ kind_norm = <<"image">> /\ suffix = <<"png">> /\ raised = "none"
    /\ fs[file_path].meta = "png_text"
\* a video whose remux failed: Sidecar(error) in place of VideoTagged
C17_WitnessError ==
    /\ pc = "pause" /\ outcome = "Sidecar(error)" /\ raised = "CalledProcessError"
    /\ ChosenOutcome = "VideoTagged"
\* a video that was remuxed
C17_WitnessVideo ==
    /\ pc = "pause" /\ outcome = "VideoTagged" /\ fs[file_path].meta = "video"

\* C18: in the video path the original is removed and the tagged copy renamed
\* over it only after ffmpeg has exited 0: the unlink and the rename are
\* reached only with the complete tagged copy on disk, the downloaded file
\* is removed or replaced by no other step, and when ffmpeg fails the
\* original is left in place under its name with its bytes.
C18_ReplaceOnlyAfterRemux ==
    /\ [](/\ pc \in {"unlink", "replace"} =>
               /\ invoked = {"ffmpeg"} /\ which_ffmpeg = "found" /\ raised = "none"
               /\ Exists(fs, tagged_path(file_path))
               /\ fs[tagged_path(file_path)] =
                     MkFile("full", body, "video", <<>>)
          /\ raised = "CalledProcessError" =>
               /\ pc = "pause"
               /\ Exists(fs, file_path)
               /\ fs[file_path] = Media("full", body)
          /\ outcome = "VideoTagged" =>
               /\ fs[file_path] = MkFile("full", body, "video", <<>>)
               /\ ~Exists(fs, tagged_path(file_path)))
    /\ [][(/\ kind_norm = <<"video">> /\ ~ItemIsZip /\ InTagging
           /\ Exists(fs, file_path)
           /\ ~Exists(fs', file_path) \/ fs'[file_path] # fs[file_path])
              => pc = "unlink"]_vars
\* ffmpeg failed on a ".mp4" download, leaving a partial output: the
\* original is where it was
C18_Witness ==
    /\ pc = "pause" /\ raised = "CalledProcessError"
    /\ file_path.name = <<"mp4">>
    /\ fs[file_path] = Media("full", body)
    /\ Exists(fs, tagged_path(file_path))
    /\ fs[tagged_path(file_path)].len = "partial"
\* ffmpeg succeeded and the tagged copy took the original's name
C18_WitnessSuccess ==
    /\ pc = "pause" /\ outcome = "VideoTagged" /\ invoked = {"ffmpeg"}
    /\ fs[file_path] = MkFile("full", body, "video", <<>>)

\* C19: processing a row touches only that row's files: in every step, each
\* file whose name does not start with the index of the row being processed
\* is there before and after the step, unchanged; the path the item was
\* downloaded to carries its index.
C19_ItemIsolation ==
    /\ []((InTagging \/ pc = "pause") => file_path.stem = i)
    /\ [][\A p \in (DOMAIN fs) \cup (DOMAIN fs') :
            p.stem # i => (Exists(fs, p) /\ Exists(fs', p) /\ fs'[p] = fs[p])]_vars
\* row 1 has been fetched and tagged next to the tagged picture of row 0
C19_Witness ==
    /\ starting_index = 0 /\ i = 1 /\ pc = "pause"
    /\ outcome = "ImageTagged(jpeg)"
    /\ Exists(fs, MkPath(0, <<"jpg">>))
    /\ fs[MkPath(0, <<"jpg">>)].meta = "exif"
    /\ Exists(fs, MkPath(1, <<"jpg">>))
    /\ fs[MkPath(1, <<"jpg">>)].meta = "exif"

\* C20: the file that download_file renames to the final path holds exactly
\* the body of the attempt that succeeded.  Each attempt starts on an empty
\* temporary file, whatever a failed attempt left in it; while the body is
\* streamed the file holds what this attempt has written and nothing else;
\* when the loop is left the file holds the whole body, and so does the final
\* path when the tagging block starts.
C20_RetryDiscardsPartial ==
    /\ [](/\ (pc = "stream" /\ written = 0) =>
               fs[tmp_path(out_stem)] = Media("empty", <<>>)
          /\ (pc = "stream" /\ written > 0) =>
               fs[tmp_path(out_stem)] = Media("partial", body)
          /\ pc = "resolve" => fs[tmp_path(out_stem)] = Media("full", body)
          /\ (pc = "classify" /\ Len(tries) > 1) =>
               (Last(tries) = "ok" /\ fs[file_path] = Media("full", body))
          /\ \A p \in DOMAIN fs : fs[p].len # "garbled")
    /\ [][(pc = "request" /\ pc' = "stream") =>
            fs'[tmp_path(out_stem)] = Media("empty", <<>>)]_vars
\* the second attempt succeeded after the first one failed with part of the
\* body written: the temporary file holds the body, once
C20_Witness ==
    /\ pc = "resolve" /\ stale
    /\ tries = <<"ssl", "ok">>
    /\ fs[tmp_path(out_stem)] = Media("full", body)
\* the third attempt has just opened the temporary file that held stale bytes
C20_WitnessTruncated ==
    /\ pc = "stream" /\ stale /\ attempt = 3 /\ written = 0
    /\ fs[tmp_path(out_stem)] = Media("empty", <<>>)
====
